---- MODULE Spec2Model ----
(***************************************************************************)
(* A model of the column-transform pipelines of solid_principles_python:   *)
(* the in-place step pipelines (process_data over apply/process steps),    *)
(* DataPipeline.process of code_with_solid.py, and the column functions    *)
(* they share (standardize, label-encode, fill missing values).            *)
(*                                                                         *)
(* Cells.  A cell is a record [k, v, q]:                                   *)
(*   k = "num": the real number v / sqrt(q), q > 0 (an integer n is n/1);  *)
(*   k = "cat": the category CatNames[v];                                  *)
(*   k = "nan": a missing entry (NaN / None).                              *)
(* A standardized value (x - mean) / std is kept exactly: with n the count *)
(* of non-missing entries, S their sum and Q the sum of their squares,     *)
(* (x - S/n) / sqrt(Q/n - (S/n)^2) = (n*x - S) / sqrt(n*Q - S^2).          *)
(*                                                                         *)
(* Tables.  A table is [index, cols]: index is the sequence of row labels, *)
(* cols a sequence of [name, vals] columns (a sequence, because pd.concat  *)
(* can produce two columns with one name).                                 *)
(***************************************************************************)
EXTENDS Integers, Sequences, FiniteSets, TLC

\* ---------------------------------------------------------------- bounds
MaxRows == 2
MaxSteps == 3

\* ---------------------------------------------------------------- cells
CatNames == <<"x", "y", "z">>

Num(n) == [k |-> "num", v |-> n, q |-> 1]

Cat(c) == [k |-> "cat", v |-> c, q |-> 0]

NaN == [k |-> "nan", v |-> 0, q |-> 0]

IsNa(c) == c.k = "nan"

Range(f) == {f[j] : j \in DOMAIN f}

RECURSIVE SumSeq(_)
SumSeq(s) == IF s = <<>> THEN 0 ELSE Head(s) + SumSeq(Tail(s))

\* The non-missing entries of a column, in row order (skipna=True).
RECURSIVE DropNa(_)
DropNa(s) ==
  IF s = <<>> THEN <<>>
  ELSE IF IsNa(Head(s)) THEN DropNa(Tail(s))
       ELSE <<Head(s)>> \o DropNa(Tail(s))

\* ------------------------------------------------------- standardization
\* np.std / np.mean of a Series dispatch to Series.std(ddof=0) / Series.mean,
\* both skipping missing entries; they raise TypeError on strings.
NumericColumn(col) == \A j \in DOMAIN col : col[j].k \in {"num", "nan"}

CountOf(col) == Len(DropNa(col))

SumOf(col) == SumSeq([j \in 1..Len(DropNa(col)) |-> DropNa(col)[j].v])

SumSqOf(col) ==
  SumSeq([j \in 1..Len(DropNa(col)) |-> DropNa(col)[j].v * DropNa(col)[j].v])

\* n^2 * variance (population, ddof = 0), in units of 1/q.
VarTimesN2(col) == CountOf(col) * SumSqOf(col) - SumOf(col) * SumOf(col)

StandardizeSample(col) ==
  [j \in DOMAIN col |->
     IF IsNa(col[j]) \/ VarTimesN2(col) = 0 THEN NaN
     ELSE [k |-> "num",
           v |-> (CountOf(col) - 1) * (CountOf(col) * col[j].v - SumOf(col)),
           q |-> CountOf(col) * (CountOf(col) - 1) * VarTimesN2(col)]]

\* (feature - mean) / std, elementwise.  A missing entry stays missing; with
\* std = 0 every entry is 0/0, which float division makes NaN.
Standardize(col) ==
  [j \in DOMAIN col |->
     IF IsNa(col[j]) \/ VarTimesN2(col) = 0 THEN NaN
     ELSE [k |-> "num",
           v |-> CountOf(col) * col[j].v - SumOf(col),
           q |-> VarTimesN2(col)]]

\* ------------------------------------------------------------- fillna
FillNaEvery(col, value) == [j \in DOMAIN col |-> Num(value)]

\* Series.fillna(value): missing entries become value, the others pass.
FillNa(col, value) ==
  [j \in DOMAIN col |-> IF IsNa(col[j]) THEN Num(value) ELSE col[j]]

\* ------------------------------------------------------ label encoding
\* The library builds the program can run on: LabelEncoder either sorts a
\* missing category after every other value ("reserve") or rejects a column
\* that mixes strings and missing entries with a TypeError ("raise").
Builds == {"reserve", "raise"}

HasNa(col) == \E j \in DOMAIN col : IsNa(col[j])

HasCat(col) == \E j \in DOMAIN col : col[j].k = "cat"

\* The order LabelEncoder sorts the distinct values in: numbers by value
\* (one column holds one radicand q, so by v), categories alphabetically
\* (by their position in CatNames), a missing value after all others.
Before(a, b) == ~IsNa(a) /\ (IsNa(b) \/ a.v < b.v)

RECURSIVE InsertUnique(_, _)
InsertUnique(c, s) ==
  IF s = <<>> THEN <<c>>
  ELSE IF c = Head(s) THEN s
  ELSE IF Before(c, Head(s)) THEN <<c>> \o s
  ELSE <<Head(s)>> \o InsertUnique(c, Tail(s))

RECURSIVE SortedUnique(_)
SortedUnique(col) ==
  IF col = <<>> THEN <<>>
  ELSE InsertUnique(Head(col), SortedUnique(Tail(col)))

FitAccumulating(prev, col) == SortedUnique(prev \o col)

\* LabelEncoder.fit: classes_ is rebuilt from the column alone, whatever
\* the encoder held before (prev).
Fit(prev, col) == SortedUnique(col)

PositionIn(classes, c) == CHOOSE j \in 1..Len(classes) : classes[j] = c

TransformMissingFirst(classes, col) ==
  [j \in DOMAIN col |->
     Num(IF IsNa(col[j]) THEN 0 ELSE PositionIn(classes, col[j]) - 1)]

TransformCapped(classes, col) ==
  [j \in DOMAIN col |->
     Num(IF PositionIn(classes, col[j]) > 2 THEN 1
         ELSE PositionIn(classes, col[j]) - 1)]

\* LabelEncoder.transform: the 0-based position of each value in classes_.
Transform(classes, col) ==
  [j \in DOMAIN col |-> Num(PositionIn(classes, col[j]) - 1)]

\* LabelEncoder.inverse_transform: classes_[code].
InverseTransform(classes, codes) ==
  [j \in DOMAIN codes |-> classes[codes[j].v + 1]]

EncodeRaises(build, col) == build = "raise" /\ HasNa(col) /\ HasCat(col)

\* ---------------------------------------------------------------- tables
ColumnNames(df) == [j \in DOMAIN df.cols |-> df.cols[j].name]

HasColumn(df, name) == \E j \in DOMAIN df.cols : df.cols[j].name = name

\* df[name] of a table whose column names are unique.
Column(df, name) ==
  df.cols[CHOOSE j \in DOMAIN df.cols : df.cols[j].name = name].vals

\* df[name] = vals: the column is replaced where it stands, or appended.
SetColumn(df, name, vals) ==
  IF HasColumn(df, name)
  THEN [df EXCEPT !.cols =
          [j \in DOMAIN df.cols |->
             IF df.cols[j].name = name
             THEN [name |-> name, vals |-> vals] ELSE df.cols[j]]]
  ELSE [df EXCEPT !.cols = Append(df.cols, [name |-> name, vals |-> vals])]

UniqueNames(df) ==
  \A j1, j2 \in DOMAIN df.cols :
     df.cols[j1].name = df.cols[j2].name => j1 = j2

NRows(df) == Len(df.index)

\* ----------------------------------------------------------------- steps
NormalizeFeature(feature_name) ==
  [kind |-> "NormalizeFeature", feature_name |-> feature_name,
   encoded_feature_name |-> "", fill_value |-> 0]

EncodeCategoricalFeature(feature_name, encoded_feature_name) ==
  [kind |-> "EncodeCategoricalFeature", feature_name |-> feature_name,
   encoded_feature_name |-> encoded_feature_name, fill_value |-> 0]

FillNaNFeature(feature_name, fill_value) ==
  [kind |-> "FillNaNFeature", feature_name |-> feature_name,
   encoded_feature_name |-> "", fill_value |-> fill_value]

\* The result of one call of a step on the table object df: the error raised
\* ("none" when it returns), the table object afterwards and the classes_ of
\* the step's own encoder afterwards.
Raised(error, df, classes) == [err |-> error, df |-> df, classes |-> classes]

Returned(df, classes) == [err |-> "none", df |-> df, classes |-> classes]

\* NormalizeFeature.apply: df[feature_name] = (df[feature_name] - mean) / std
NormalizeApply(step, df, classes, build) ==
  IF ~HasColumn(df, step.feature_name) THEN Raised("KeyError", df, classes)
  ELSE IF ~NumericColumn(Column(df, step.feature_name))
  THEN Raised("TypeError", df, classes)
  ELSE Returned(SetColumn(df, step.feature_name,
                          Standardize(Column(df, step.feature_name))),
                classes)

\* EncodeCategoricalFeature.apply:
\*   df[encoded_feature_name] = self.encoder.fit_transform(df[feature_name])
EncodeApply(step, df, classes, build) ==
  IF ~HasColumn(df, step.feature_name) THEN Raised("KeyError", df, classes)
  ELSE IF EncodeRaises(build, Column(df, step.feature_name))
  THEN Raised("TypeError", df, classes)
  ELSE Returned(SetColumn(df, step.encoded_feature_name,
                          Transform(Fit(classes, Column(df, step.feature_name)),
                                    Column(df, step.feature_name))),
                Fit(classes, Column(df, step.feature_name)))

FillApplyEveryColumn(step, df, classes, build) ==
  IF ~HasColumn(df, step.feature_name) THEN Raised("KeyError", df, classes)
  ELSE Returned([df EXCEPT !.cols =
                   [j \in DOMAIN df.cols |->
                      [name |-> df.cols[j].name,
                       vals |-> FillNa(df.cols[j].vals, step.fill_value)]]],
                classes)

\* FillNaNFeature.apply: df[feature_name] = df[feature_name].fillna(fill_value)
FillApply(step, df, classes, build) ==
  IF ~HasColumn(df, step.feature_name) THEN Raised("KeyError", df, classes)
  ELSE Returned(SetColumn(df, step.feature_name,
                          FillNa(Column(df, step.feature_name), step.fill_value)),
                classes)

\* step.apply(df), dispatched on the step's class.
ApplyStep(step, df, classes, build) ==
  CASE step.kind = "NormalizeFeature" -> NormalizeApply(step, df, classes, build)
    [] step.kind = "EncodeCategoricalFeature" -> EncodeApply(step, df, classes, build)
    [] step.kind = "FillNaNFeature" -> FillApply(step, df, classes, build)

\* The step loop of process_data as a function of the step list and the
\* loaded table: the table after the last step, or the first error raised.
RECURSIVE RunSteps(_, _, _)
RunSteps(list, df, build) ==
  IF list = <<>> THEN Returned(df, <<>>)
  ELSE LET r == ApplyStep(Head(list), df, <<>>, build)
       IN IF r.err # "none" THEN r ELSE RunSteps(Tail(list), r.df, build)

\* ------------------------------------------------------------ input data
FeatureNames == <<"feature_a", "feature_b", "feature_c">>

\* Rows of the stored dataset: (feature_a, feature_b, feature_c).
RowSet ==
  { <<Num(1), Cat(1), Num(5)>>,
    <<Num(2), Cat(2), NaN>>,
    <<NaN, NaN, Num(7)>> }

DefaultIndex(n) == [j \in 1..n |-> j - 1]

\* The table with the given rows, restricted to the columns in keep.
RECURSIVE ColumnsOf(_, _, _)
ColumnsOf(rows, keep, c) ==
  IF c > Len(FeatureNames) THEN <<>>
  ELSE (IF FeatureNames[c] \in keep
        THEN <<[name |-> FeatureNames[c],
                vals |-> [j \in DOMAIN rows |-> rows[j][c]]]>>
        ELSE <<>>) \o ColumnsOf(rows, keep, c + 1)

MakeTable(rows, keep, index) ==
  [index |-> index, cols |-> ColumnsOf(rows, keep, 1)]

AllFeatures == Range(FeatureNames)

\* The end-to-end scenario's table.
ScenarioRows ==
  << <<Num(1), Cat(1), Num(5)>>, <<Num(2), Cat(2), NaN>>,
     <<Num(3), Cat(1), Num(7)>>, <<Num(4), Cat(3), NaN>> >>

ScenarioTable == MakeTable(ScenarioRows, AllFeatures, DefaultIndex(4))

RowSeqs == UNION {[1..n -> RowSet] : n \in 1..MaxRows}

\* The stored datasets: every table of up to MaxRows rows that holds the
\* three features or lacks one of them, and the scenario's table.
ColumnSets == {AllFeatures} \cup {AllFeatures \ {f} : f \in AllFeatures}

StoredTables ==
  {MakeTable(rows, keep, DefaultIndex(Len(rows))) :
     rows \in RowSeqs, keep \in ColumnSets}
  \cup {ScenarioTable}

EmptyTable == [index |-> <<>>, cols |-> <<>>]

\* The step objects main() builds.
DefaultSteps ==
  << NormalizeFeature("feature_a"),
     EncodeCategoricalFeature("feature_b", "feature_b_encoded"),
     FillNaNFeature("feature_c", -1) >>

StepObjects == Range(DefaultSteps)

StepLists == UNION {[1..n -> StepObjects] : n \in 0..MaxSteps}

\* -------------------------------------- DataPipeline (code_with_solid.py)
\* df[name] of a table that may hold several columns of that name: all of
\* them, in table order.
RECURSIVE SelectCols(_, _)
SelectCols(cols, name) ==
  IF cols = <<>> THEN <<>>
  ELSE (IF Head(cols).name = name THEN <<Head(cols)>> ELSE <<>>)
       \o SelectCols(Tail(cols), name)

ColumnsNamed(df, name) ==
  {df.cols[j].vals : j \in {c \in DOMAIN df.cols : df.cols[c].name = name}}

\* What a processor returns: the error raised ("none" if it returns), the
\* produced columns and the row labels they carry.
Produced(cols, index) == [err |-> "none", cols |-> cols, index |-> index]

Failed(error) == [err |-> error, cols |-> <<>>, index |-> <<>>]

\* Standardizer.process_data: (df["feature_a"] - mean) / std, per column.
StandardizerProcessData(df, build) ==
  LET sel == SelectCols(df.cols, "feature_a")
  IN IF sel = <<>> THEN Failed("KeyError")
     ELSE IF \E j \in DOMAIN sel : ~NumericColumn(sel[j].vals)
     THEN Failed("TypeError")
     ELSE Produced([j \in DOMAIN sel |->
                      [name |-> sel[j].name, vals |-> Standardize(sel[j].vals)]],
                   df.index)

\* Encoder.process_data: a fresh LabelEncoder's fit_transform(df["feature_b"]),
\* wrapped in a new Series named feature_b_encoded with the default index.
EncoderProcessData(df, build) ==
  LET sel == SelectCols(df.cols, "feature_b")
  IN IF sel = <<>> THEN Failed("KeyError")
     ELSE IF EncodeRaises(build, sel[1].vals) THEN Failed("TypeError")
     ELSE Produced(<<[name |-> "feature_b_encoded",
                      vals |-> Transform(Fit(<<>>, sel[1].vals), sel[1].vals)]>>,
                   DefaultIndex(NRows(df)))

\* NanFiller.process_data: df["feature_c"].fillna(-1), per column.
NanFillerProcessData(df, build) ==
  LET sel == SelectCols(df.cols, "feature_c")
  IN IF sel = <<>> THEN Failed("KeyError")
     ELSE Produced([j \in DOMAIN sel |->
                      [name |-> sel[j].name, vals |-> FillNa(sel[j].vals, -1)]],
                   df.index)

ProcessData(processor, df, build) ==
  CASE processor = "Standardizer" -> StandardizerProcessData(df, build)
    [] processor = "Encoder" -> EncoderProcessData(df, build)
    [] processor = "NanFiller" -> NanFillerProcessData(df, build)

\* Row alignment of pd.concat(axis=1): the labels of the first index, then
\* the labels only the second one has.
RECURSIVE Missing(_, _)
Missing(index, known) ==
  IF index = <<>> THEN <<>>
  ELSE (IF Head(index) \in known THEN <<>> ELSE <<Head(index)>>)
       \o Missing(Tail(index), known)

UnionIndex(a, b) == a \o Missing(b, Range(a))

\* A column aligned to a new index: rows whose label it lacks are missing.
Reindex(vals, index, newIndex) ==
  [j \in DOMAIN newIndex |->
     IF newIndex[j] \in Range(index)
     THEN vals[CHOOSE r \in DOMAIN index : index[r] = newIndex[j]]
     ELSE NaN]

ReindexCols(cols, index, newIndex) ==
  [j \in DOMAIN cols |->
     [name |-> cols[j].name, vals |-> Reindex(cols[j].vals, index, newIndex)]]

\* pd.concat([df, produced], axis=1): the produced columns are appended
\* after df's, rows aligned on the union of the two indexes.
Concat(df, cols, index) ==
  LET newIndex == IF index = df.index THEN df.index
                  ELSE UnionIndex(df.index, index)
  IN [index |-> newIndex,
      cols |-> ReindexCols(df.cols, df.index, newIndex)
               \o ReindexCols(cols, index, newIndex)]

\* processors = [Standardizer(), Encoder(), NanFiller()]
DefaultProcessors == <<"Standardizer", "Encoder", "NanFiller">>

ProcessorLists == UNION {[1..n -> Range(DefaultProcessors)] : n \in 0..MaxSteps}

ShiftedIndex(n) == [j \in 1..n |-> j]

\* The stored datasets with the row labels they may carry.
LabelledTables ==
  StoredTables
  \cup {[t EXCEPT !.index = ShiftedIndex(NRows(t))] : t \in StoredTables}

\* The table a processor is handed: df, the result accumulated so far.
Hand(loadedTable, current) == current

\* ------------------------------------------------- simple_code.process
\* pd.concat(series, axis=1) of a list of Series: the columns side by side,
\* rows aligned on the union of their indexes.
RECURSIVE ConcatSeries(_, _)
ConcatSeries(acc, series) ==
  IF series = <<>> THEN acc
  ELSE ConcatSeries(Concat(acc, <<Head(series).col>>, Head(series).index),
                    Tail(series))

ASeries(name, vals, index) ==
  [col |-> [name |-> name, vals |-> vals], index |-> index]

\* Lines 15-32 of process: the three features computed from the loaded
\* table and concatenated; the error raised on the way, if any.
SimpleProcessed(table, lib) ==
  IF ~HasColumn(table, "feature_a") THEN Raised("KeyError", table, <<>>)
  ELSE IF ~NumericColumn(Column(table, "feature_a"))
  THEN Raised("TypeError", table, <<>>)
  ELSE IF ~HasColumn(table, "feature_b") THEN Raised("KeyError", table, <<>>)
  ELSE IF EncodeRaises(lib, Column(table, "feature_b"))
  THEN Raised("TypeError", table, <<>>)
  ELSE IF ~HasColumn(table, "feature_c") THEN Raised("KeyError", table, <<>>)
  ELSE
    LET standardized_feature ==
          ASeries("feature_a", Standardize(Column(table, "feature_a")),
                  table.index)
        encoded_feature ==
          ASeries("feature_b_encoded",
                  Transform(Fit(<<>>, Column(table, "feature_b")),
                            Column(table, "feature_b")),
                  DefaultIndex(NRows(table)))
        filled_feature ==
          ASeries("feature_c", FillNa(Column(table, "feature_c"), -1),
                  table.index)
    IN Returned(ConcatSeries([index |-> standardized_feature.index,
                              cols |-> <<standardized_feature.col>>],
                             <<encoded_feature, filled_feature>>),
                <<>>)

\* ------------------------------------- single_responsibility_1.process
\* Every reordering of a list.
Reorderings(list) ==
  {[j \in DOMAIN list |-> list[p[j]]] :
     p \in {f \in [DOMAIN list -> DOMAIN list] :
              \A j1, j2 \in DOMAIN list : f[j1] = f[j2] => j1 = j2}}

\* encode_feature: a fresh LabelEncoder's fit_transform, as a new Series
\* with the default index.
EncodeFeature(feature) == Transform(Fit(<<>>, feature), feature)

Shortest(a, b) == IF a < b THEN a ELSE b

\* compose_df: {column_name: series for column_name, series in
\* zip(column_names, args)} made a DataFrame; the j-th Series is stored under
\* the j-th column name, Series beyond the shorter of the two are dropped.
ComposeDf(args, column_names) ==
  LET n == Shortest(Len(args), Len(column_names))
      named == [j \in 1..n |->
                  ASeries(column_names[j], args[j].col.vals, args[j].index)]
  IN IF n = 0 THEN EmptyTable
     ELSE ConcatSeries(
            [index |-> named[1].index, cols |-> <<named[1].col>>],
            Tail(named))

\* Lines 14-24 of process: the three features and the composed table, or
\* the error raised on the way.
ComposeProcessed(table, lib) ==
  IF ~HasColumn(table, "feature_a") THEN Raised("KeyError", table, <<>>)
  ELSE IF ~NumericColumn(Column(table, "feature_a"))
  THEN Raised("TypeError", table, <<>>)
  ELSE IF ~HasColumn(table, "feature_b") THEN Raised("KeyError", table, <<>>)
  ELSE IF EncodeRaises(lib, Column(table, "feature_b"))
  THEN Raised("TypeError", table, <<>>)
  ELSE IF ~HasColumn(table, "feature_c") THEN Raised("KeyError", table, <<>>)
  ELSE
    LET normalized_feature ==
          ASeries("feature_a", Standardize(Column(table, "feature_a")),
                  table.index)
        encoded_feature ==
          ASeries("feature_b", EncodeFeature(Column(table, "feature_b")),
                  DefaultIndex(NRows(table)))
        filled_feature ==
          ASeries("feature_c", FillNa(Column(table, "feature_c"), -1),
                  table.index)
    IN Returned(ComposeDf(<<normalized_feature, encoded_feature,
                            filled_feature>>,
                          ColumnNames(table)),
                <<>>)

\* The stored datasets in every column order, with or without a further
\* column in front.
ExtraColumn(table) ==
  [name |-> "feature_d", vals |-> [j \in DOMAIN table.index |-> Num(0)]]

Arrangements(t) ==
  UNION {{[t EXCEPT !.cols = cols],
          [t EXCEPT !.cols = <<ExtraColumn(t)>> \o cols]} :
           cols \in Reorderings(t.cols)}

ArrangedTables == UNION {Arrangements(t) : t \in LabelledTables}

\* ------------------------------------------------------------------ state
VARIABLES
  build,       \* the library build the program runs on
  readable,    \* whether the stored dataset can be read
  file,        \* the stored dataset (data/data.parquet)
  steps,       \* process_data's list of step objects
  processors,  \* DataPipeline.processors
  encoder,     \* classes_ of the LabelEncoder each encoding step object keeps
  pc,          \* position of the run: load, steps, save, done, failed
  df,          \* the in-memory table of the run
  i,           \* number of steps / processors the loop has taken up
  calls,       \* history: the list positions invoked, in invocation order
  handed,      \* history: the table handed to each invoked processor
  saved,       \* the tables written to the output file, in order
  err,         \* the error that ended the run or the call, "none" if none
  target,      \* the step object whose apply was last called directly
  arg,         \* the table that call was given, as it was before the call
  fitted       \* classes_ of the target's encoder before that call

vars ==
  <<build, readable, file, steps, processors, encoder, pc, df, i, calls,
    handed, saved, err, target, arg, fitted>>

callVars == <<target, arg, fitted>>

\* Every encoding step object is constructed with an unfitted LabelEncoder.
NewEncoders(objects) ==
  [s \in {o \in objects : o.kind = "EncodeCategoricalFeature"} |-> <<>>]

NoStep ==
  [kind |-> "none", feature_name |-> "", encoded_feature_name |-> "",
   fill_value |-> 0]

ClassesOf(enc, step) == IF step \in DOMAIN enc THEN enc[step] ELSE <<>>

Retain(enc, step, classes) ==
  IF step \in DOMAIN enc THEN [enc EXCEPT ![step] = classes] ELSE enc

\* ------------------------------------------- process_data (in-place steps)
\* One run of process_data: load, the step loop, save.  The variants of
\* liskov_substitution.py, dependency_aversion.py and open_close.py are this
\* loop; interface_segregation.py runs it over its three lists in turn,
\* which is the loop over their concatenation.
InitRun(tables) ==
  /\ build \in Builds
  /\ readable \in BOOLEAN
  /\ file \in (IF readable THEN tables ELSE {EmptyTable})
  /\ encoder = NewEncoders(StepObjects)
  /\ pc = "load"
  /\ df = EmptyTable
  /\ i = 0
  /\ calls = <<>>
  /\ handed = <<>>
  /\ saved = <<>>
  /\ err = "none"
  /\ target = NoStep
  /\ arg = EmptyTable
  /\ fitted = <<>>

Init ==
  /\ InitRun(StoredTables)
  /\ steps \in StepLists
  /\ processors = <<>>

\* df = loader.load_data()
LoadData ==
  /\ pc = "load"
  /\ pc' = IF readable THEN "steps" ELSE "failed"
  /\ err' = IF readable THEN "none" ELSE "LoadError"
  /\ df' = IF readable THEN file ELSE df
  /\ UNCHANGED <<build, readable, file, steps, processors, encoder, i, calls,
                 handed, saved, callVars>>

StepOutcomeSwallow(error) == "steps"

\* An exception raised by a step leaves the loop and process_data.
StepOutcome(error) == IF error = "none" THEN "steps" ELSE "failed"

\* for step in steps: df = step.apply(df)
ApplyNextStep ==
  /\ pc = "steps"
  /\ i < Len(steps)
  /\ LET step == steps[i + 1]
         r == ApplyStep(step, df, ClassesOf(encoder, step), build)
     IN /\ df' = r.df
        /\ encoder' = Retain(encoder, step, r.classes)
        /\ err' = r.err
        /\ pc' = StepOutcome(r.err)
  /\ i' = i + 1
  /\ calls' = Append(calls, i + 1)
  /\ UNCHANGED <<build, readable, file, steps, processors, handed, saved,
                 callVars>>

\* saver.save_data(df)
SaveData ==
  /\ pc = "steps"
  /\ i = Len(steps)
  /\ saved' = Append(saved, df)
  /\ pc' = "done"
  /\ UNCHANGED <<build, readable, file, steps, processors, encoder, df, i,
                 calls, handed, err, callVars>>

Next == LoadData \/ ApplyNextStep \/ SaveData

Spec == Init /\ [][Next]_vars

\* ------------------------------------------- DataPipeline.process, main
InitPipeline ==
  /\ InitRun(LabelledTables)
  /\ steps = <<>>
  /\ processors \in ProcessorLists

\* df = pd.read_parquet(path)
ReadParquet ==
  /\ pc = "load"
  /\ pc' = IF readable THEN "processors" ELSE "failed"
  /\ err' = IF readable THEN "none" ELSE "LoadError"
  /\ df' = IF readable THEN file ELSE df
  /\ UNCHANGED <<build, readable, file, steps, processors, encoder, i, calls,
                 handed, saved, callVars>>

\* for processor in self.processors:
\*     df = pd.concat([df, processor.process_data(df)], axis=1)
InvokeProcessor ==
  /\ pc = "processors"
  /\ i < Len(processors)
  /\ LET given == Hand(file, df)
         r == ProcessData(processors[i + 1], given, build)
     IN /\ handed' = Append(handed, given)
        /\ err' = r.err
        /\ pc' = IF r.err = "none" THEN "processors" ELSE "failed"
        /\ df' = IF r.err = "none" THEN Concat(df, r.cols, r.index) ELSE df
  /\ i' = i + 1
  /\ calls' = Append(calls, i + 1)
  /\ UNCHANGED <<build, readable, file, steps, processors, encoder, saved,
                 callVars>>

\* processed_df.to_parquet(output_path), after pipeline.process returned; the
\* parquet writer rejects a table with two columns of one name.
WriteParquet ==
  /\ pc = "processors"
  /\ i = Len(processors)
  /\ saved' = IF UniqueNames(df) THEN Append(saved, df) ELSE saved
  /\ err' = IF UniqueNames(df) THEN "none" ELSE "ValueError"
  /\ pc' = IF UniqueNames(df) THEN "done" ELSE "failed"
  /\ UNCHANGED <<build, readable, file, steps, processors, encoder, df, i,
                 calls, handed, callVars>>

NextPipeline == ReadParquet \/ InvokeProcessor \/ WriteParquet

SpecPipeline == InitPipeline /\ [][NextPipeline]_vars

\* ------------------------------------------ direct calls of step objects
\* Rows of the tables a caller hands to a step: (feature_a, feature_b,
\* feature_c).
CallRowSet ==
  RowSet \cup { <<Num(3), Cat(3), Num(5)>>, <<Num(1), Cat(2), Num(7)>> }

CallTables ==
  {MakeTable(rows, AllFeatures, DefaultIndex(Len(rows))) :
     rows \in UNION {[1..n -> CallRowSet] : n \in 1..(MaxRows + 1)}}
  \cup {ScenarioTable}

FillValues == {-1, 0}

\* The step objects callers construct.
CallObjects ==
  {NormalizeFeature(f) : f \in AllFeatures}
  \cup {EncodeCategoricalFeature("feature_b", "feature_b_encoded")}
  \cup {FillNaNFeature(f, value) :
          f \in {"feature_a", "feature_c"}, value \in FillValues}

InitCalls ==
  /\ build \in Builds
  /\ readable = TRUE
  /\ file = EmptyTable
  /\ steps = <<>>
  /\ processors = <<>>
  /\ encoder = NewEncoders(CallObjects)
  /\ pc = "call"
  /\ df = EmptyTable
  /\ i = 0
  /\ calls = <<>>
  /\ handed = <<>>
  /\ saved = <<>>
  /\ err = "none"
  /\ target = NoStep
  /\ arg = EmptyTable
  /\ fitted = <<>>

\* A caller calls step.apply(table) on one of the step objects, which keep
\* their encoders from one call to the next; df is the table object after
\* the call.
CallApply ==
  /\ pc = "call"
  /\ \E step \in CallObjects, table \in CallTables :
       LET r == ApplyStep(step, table, ClassesOf(encoder, step), build)
       IN /\ target' = step
          /\ arg' = table
          /\ fitted' = ClassesOf(encoder, step)
          /\ df' = r.df
          /\ err' = r.err
          /\ encoder' = Retain(encoder, step, r.classes)
  /\ pc' = "returned"
  /\ UNCHANGED <<build, readable, file, steps, processors, i, calls, handed,
                 saved>>

\* The caller lets go of the table; the step objects live on.
DropTable ==
  /\ pc = "returned"
  /\ pc' = "call"
  /\ target' = NoStep
  /\ arg' = EmptyTable
  /\ fitted' = <<>>
  /\ df' = EmptyTable
  /\ err' = "none"
  /\ UNCHANGED <<build, readable, file, steps, processors, encoder, i, calls,
                 handed, saved>>

NextCalls == CallApply \/ DropTable

SpecCalls == InitCalls /\ [][NextCalls]_vars

\* ------------------------------------------------- simple_code.process
InitSimple ==
  /\ InitRun(LabelledTables)
  /\ steps = <<>>
  /\ processors = <<>>

\* df = pd.read_parquet(path)
SimpleRead ==
  /\ pc = "load"
  /\ pc' = IF readable THEN "transform" ELSE "failed"
  /\ err' = IF readable THEN "none" ELSE "LoadError"
  /\ df' = IF readable THEN file ELSE df
  /\ UNCHANGED <<build, readable, file, steps, processors, encoder, i, calls,
                 handed, saved, callVars>>

\* The three features and processed_df = pd.concat([...], axis=1); df holds
\* processed_df afterwards.
SimpleTransform ==
  /\ pc = "transform"
  /\ LET r == SimpleProcessed(df, build)
     IN /\ err' = r.err
        /\ df' = r.df
        /\ pc' = IF r.err = "none" THEN "write" ELSE "failed"
  /\ UNCHANGED <<build, readable, file, steps, processors, encoder, i, calls,
                 handed, saved, callVars>>

\* processed_df.to_parquet(output_path)
SimpleWrite ==
  /\ pc = "write"
  /\ saved' = Append(saved, df)
  /\ pc' = "done"
  /\ UNCHANGED <<build, readable, file, steps, processors, encoder, df, i,
                 calls, handed, err, callVars>>

NextSimple == SimpleRead \/ SimpleTransform \/ SimpleWrite

SpecSimple == InitSimple /\ [][NextSimple]_vars

\* ------------------------------------- single_responsibility_1.process
InitCompose ==
  /\ InitRun(ArrangedTables)
  /\ steps = <<>>
  /\ processors = <<>>

\* df = load_data(path)
ComposeLoad ==
  /\ pc = "load"
  /\ pc' = IF readable THEN "transform" ELSE "failed"
  /\ err' = IF readable THEN "none" ELSE "LoadError"
  /\ df' = IF readable THEN file ELSE df
  /\ UNCHANGED <<build, readable, file, steps, processors, encoder, i, calls,
                 handed, saved, callVars>>

\* normalize_feature, encode_feature, fill_feature and compose_df; df holds
\* processed_df afterwards.
ComposeTransform ==
  /\ pc = "transform"
  /\ LET r == ComposeProcessed(df, build)
     IN /\ err' = r.err
        /\ df' = r.df
        /\ pc' = IF r.err = "none" THEN "write" ELSE "failed"
  /\ UNCHANGED <<build, readable, file, steps, processors, encoder, i, calls,
                 handed, saved, callVars>>

\* save_df(df=processed_df, path=output_path)
ComposeSave ==
  /\ pc = "write"
  /\ saved' = Append(saved, df)
  /\ pc' = "done"
  /\ UNCHANGED <<build, readable, file, steps, processors, encoder, df, i,
                 calls, handed, err, callVars>>

NextCompose == ComposeLoad \/ ComposeTransform \/ ComposeSave

SpecCompose == InitCompose /\ [][NextCompose]_vars

\* ================================================================ claims

\* C2: in process_data the steps are invoked strictly in list order, each at
\* most once and never again after a failure; a failed step ends the run
\* with no later step and no save; save_data happens at most once, and only
\* after every configured step has returned successfully.
C2_OrderedAbortingRun ==
  [][ /\ (err # "none" => calls' = calls /\ saved' = saved)
      /\ (calls' # calls =>
            /\ calls' = Append(calls, Len(calls) + 1)
            /\ Len(calls') <= Len(steps)
            /\ saved = <<>>)
      /\ (saved' # saved =>
            /\ saved = <<>>
            /\ saved' = <<df>>
            /\ err = "none"
            /\ calls = [j \in 1..Len(steps) |-> j]) ]_vars

\* A run that failed at a step which is neither the first nor the last.
C2_Witness ==
  /\ pc = "failed"
  /\ err \in {"KeyError", "TypeError"}
  /\ Len(calls) > 1
  /\ Len(calls) < Len(steps)
  /\ saved = <<>>

\* C3: when a step names a source column absent from the loaded table, the
\* run fails with the missing-column error while the in-memory table still
\* equals the loaded table and nothing has been written.
C3_FailFastUntouched ==
  err = "KeyError" => (df = file /\ saved = <<>>)

\* C4: a transform is read-only with respect to the table it is given: the
\* call of a step leaves every column of the table object as it was and adds
\* no column.
C4_TransformsReadOnly ==
  [][calls' # calls => df' = df]_vars

\* C1: DataPipeline.process hands every processor the original loaded table,
\* with no column produced by an earlier processor of the same run.
C1_ProcessorsGetLoadedTable ==
  \A j \in DOMAIN handed : handed[j] = file

\* C5: column names are unique in every table DataPipeline.process builds.
C5_UniqueColumnNames ==
  pc \in {"processors", "done", "failed"} => UniqueNames(df)

\* The scenario's expected columns: feature_a = [1, 2, 3, 4] has mean 10/4
\* and population variance 20/16, so row i is (4 * x_i - 10) / sqrt(20).
ScenarioStandardized ==
  << [k |-> "num", v |-> -6, q |-> 20], [k |-> "num", v |-> -2, q |-> 20],
     [k |-> "num", v |-> 2, q |-> 20], [k |-> "num", v |-> 6, q |-> 20] >>

ScenarioEncoded == <<Num(0), Num(1), Num(0), Num(2)>>

ScenarioFilled == <<Num(5), Num(-1), Num(7), Num(-1)>>

\* C6: for the end-to-end scenario run through main()'s default pipeline,
\* the output's column named feature_a is the standardized column, the one
\* named feature_b_encoded is [0, 1, 0, 2] and the one named feature_c is
\* [5, -1, 7, -1].
C6_ScenarioOutput ==
  (/\ file = ScenarioTable
   /\ processors = DefaultProcessors
   /\ pc = "processors"
   /\ i = Len(processors))
  => /\ ColumnsNamed(df, "feature_a") = {ScenarioStandardized}
     /\ ColumnsNamed(df, "feature_b_encoded") = {ScenarioEncoded}
     /\ ColumnsNamed(df, "feature_c") = {ScenarioFilled}

\* The call under examination is an encoding call that returned: its source
\* column, the codes it stored and the vocabulary it built.
EncodeReturned ==
  /\ pc = "returned"
  /\ target.kind = "EncodeCategoricalFeature"
  /\ err = "none"

SourceColumn == Column(arg, target.feature_name)

Codes == Column(df, target.encoded_feature_name)

\* C7: the encoding gives two rows the same code exactly when they hold the
\* same category, and mapping the codes back through the vocabulary built
\* by the invocation reproduces the column row for row.
C7_EncodeRoundTrip ==
  EncodeReturned =>
    /\ Len(Codes) = Len(SourceColumn)
    /\ \A j1, j2 \in DOMAIN SourceColumn :
         (SourceColumn[j1] = SourceColumn[j2]) <=> (Codes[j1] = Codes[j2])
    /\ InverseTransform(encoder[target], Codes) = SourceColumn

\* An encoded column with three distinct categories, one of them repeated.
C7_Witness ==
  /\ EncodeReturned
  /\ Cardinality(Range(SourceColumn)) = 3
  /\ Len(SourceColumn) > 3
  /\ ~HasNa(SourceColumn)

\* C8: the code of a category is its rank among the sorted distinct values
\* of the column being encoded, starting at 0, whatever the order of the
\* rows and whatever vocabulary the step's encoder held from earlier calls.
C8_CodeIsRank ==
  EncodeReturned =>
    \A j \in DOMAIN SourceColumn :
       Codes[j] =
         Num(Cardinality({c \in Range(SourceColumn) : Before(c, SourceColumn[j])}))

\* An encoder fitted earlier on another vocabulary encodes a column whose
\* rows are not in sorted order.
C8_Witness ==
  /\ EncodeReturned
  /\ fitted # <<>>
  /\ Range(fitted) # Range(SourceColumn)
  /\ \E j1, j2 \in DOMAIN SourceColumn :
       j1 < j2 /\ Before(SourceColumn[j2], SourceColumn[j1])

FillReturned ==
  /\ pc = "returned"
  /\ target.kind = "FillNaNFeature"
  /\ err = "none"

Filled == Column(df, target.feature_name)

\* C9: the fill transform yields a column of the same length with no missing
\* entry, where every row that was missing holds the fill value and every
\* other row holds its original value.
C9_FillReplacesOnlyMissing ==
  FillReturned =>
    /\ Len(Filled) = Len(SourceColumn)
    /\ \A j \in DOMAIN SourceColumn :
         /\ ~IsNa(Filled[j])
         /\ IsNa(SourceColumn[j]) => Filled[j] = Num(target.fill_value)
         /\ ~IsNa(SourceColumn[j]) => Filled[j] = SourceColumn[j]

\* A filled column that had both missing and non-missing entries.
C9_Witness ==
  /\ FillReturned
  /\ HasNa(SourceColumn)
  /\ \E j \in DOMAIN SourceColumn :
       ~IsNa(SourceColumn[j]) /\ SourceColumn[j] # Num(target.fill_value)

\* C10: when the source column of the encoding holds missing values, either
\* the call fails and stores nothing, or every missing row gets one code
\* that no non-missing row gets.
C10_MissingCategoryReserved ==
  (/\ pc = "returned"
   /\ target.kind = "EncodeCategoricalFeature"
   /\ HasNa(SourceColumn))
  => \/ err = "TypeError" /\ df = arg
     \/ /\ err = "none"
        /\ \A j1, j2 \in DOMAIN SourceColumn :
             IsNa(SourceColumn[j1]) =>
               ((Codes[j1] = Codes[j2]) <=> IsNa(SourceColumn[j2]))

\* An encoded column with two missing rows beside a category.
C10_Witness ==
  /\ EncodeReturned
  /\ Cardinality({j \in DOMAIN SourceColumn : IsNa(SourceColumn[j])}) > 1
  /\ HasCat(SourceColumn)

NormalizeReturned ==
  /\ pc = "returned"
  /\ target.kind = "NormalizeFeature"
  /\ err = "none"

Normalized == Column(df, target.feature_name)

\* A column whose entries are all present and all equal.
ConstantColumn(col) ==
  /\ col # <<>>
  /\ ~HasNa(col)
  /\ \A j \in DOMAIN col : col[j] = col[1]

\* C11: on a constant source column (standard deviation 0) the
\* standardization either fails or returns an all-zero column; it never
\* returns an undefined or missing value.
C11_ConstantColumnPolicy ==
  (/\ pc = "returned"
   /\ target.kind = "NormalizeFeature"
   /\ HasColumn(arg, target.feature_name)
   /\ NumericColumn(SourceColumn)
   /\ ConstantColumn(SourceColumn))
  => \/ err # "none"
     \/ \A j \in DOMAIN Normalized :
          Normalized[j].k = "num" /\ Normalized[j].v = 0

Sign(n) == IF n > 0 THEN 1 ELSE IF n < 0 THEN -1 ELSE 0

\* C12: for a numeric column with nonzero variance and no missing entry,
\* row i of the standardized column is (x_i - mean) / std with the
\* population mean and standard deviation over all R rows, and the output
\* has mean 0 and standard deviation 1.  With x_i = a_i / sqrt(p) and the
\* output v_i / sqrt(q): v_i has the sign of R * a_i - sum(a), and
\* v_i^2 * (R * sum(a^2) - sum(a)^2) = q * (R * a_i - sum(a))^2; mean 0 is
\* sum(v) = 0 and standard deviation 1 is sum(v^2) = R * q.
C12_StandardizedMoments ==
  (/\ NormalizeReturned
   /\ ~HasNa(SourceColumn)
   /\ VarTimesN2(SourceColumn) # 0)
  => LET R == Len(SourceColumn)
         a == [j \in 1..R |-> SourceColumn[j].v]
         sumA == SumSeq(a)
         sumA2 == SumSeq([j \in 1..R |-> a[j] * a[j]])
         out == Normalized
     IN /\ Len(out) = R
        /\ \A j \in 1..R :
             /\ out[j].k = "num"
             /\ out[j].q > 0
             /\ out[j].q = out[1].q
             /\ Sign(out[j].v) = Sign(R * a[j] - sumA)
             /\ out[j].v * out[j].v * (R * sumA2 - sumA * sumA)
                  = out[j].q * (R * a[j] - sumA) * (R * a[j] - sumA)
        /\ SumSeq([j \in 1..R |-> out[j].v]) = 0
        /\ SumSeq([j \in 1..R |-> out[j].v * out[j].v]) = R * out[1].q

\* A standardized column of three different numbers.
C12_Witness ==
  /\ NormalizeReturned
  /\ ~HasNa(SourceColumn)
  /\ Cardinality(Range(SourceColumn)) = 3

\* C13: the table simple_code.process assembles has exactly R rows, R the
\* row count of the loaded table, and row i of each of its three columns is
\* computed from row i of the loaded table, whatever row labels the loaded
\* table carries.
C13_RowsPreserved ==
  pc \in {"write", "done"} =>
    /\ NRows(df) = NRows(file)
    /\ ColumnsNamed(df, "feature_a")
         = {Standardize(Column(file, "feature_a"))}
    /\ ColumnsNamed(df, "feature_b_encoded")
         = {Transform(Fit(<<>>, Column(file, "feature_b")),
                      Column(file, "feature_b"))}
    /\ ColumnsNamed(df, "feature_c")
         = {FillNa(Column(file, "feature_c"), -1)}

\* The column names a step reads or writes.
NamesOf(step) ==
  {step.feature_name}
  \cup (IF step.kind = "EncodeCategoricalFeature"
        THEN {step.encoded_feature_name} ELSE {})

PairwiseDisjoint(list) ==
  \A j1, j2 \in DOMAIN list :
     j1 # j2 => NamesOf(list[j1]) \cap NamesOf(list[j2]) = {}

\* The contents of a table: its row labels and its named columns.
Contents(table) == [index |-> table.index, cols |-> Range(table.cols)]

\* C14: for a list of steps whose source and output column names are
\* pairwise disjoint, process_data yields the same final table contents
\* (same column names, same values per column) for every permutation of
\* the list; a run that fails, fails under every permutation.
C14_OrderIrrelevant ==
  (/\ pc \in {"done", "failed"}
   /\ readable
   /\ PairwiseDisjoint(steps))
  => \A list \in Reorderings(steps) :
       LET r == RunSteps(list, file, build)
       IN /\ pc = "done" => (r.err = "none" /\ Contents(r.df) = Contents(df))
          /\ pc = "failed" => r.err # "none"

\* A finished run of three disjoint steps over a table with missing entries
\* in feature_a and feature_c.
C14_Witness ==
  /\ pc = "done"
  /\ Len(steps) = 3
  /\ PairwiseDisjoint(steps)
  /\ steps # DefaultSteps
  /\ HasNa(Column(file, "feature_a"))
  /\ HasNa(Column(file, "feature_c"))
  /\ saved = <<df>>

\* C15: single_responsibility_1.process stores each produced column under
\* the name of the column it was computed from (standardized values under
\* feature_a, codes under feature_b, filled values under feature_c), for
\* every column order and number of columns of the loaded table.
C15_StoredUnderSourceName ==
  pc \in {"write", "done"} =>
    /\ ColumnsNamed(df, "feature_a")
         = {Reindex(Standardize(Column(file, "feature_a")),
                    file.index, df.index)}
    /\ ColumnsNamed(df, "feature_b")
         = {Reindex(EncodeFeature(Column(file, "feature_b")),
                    DefaultIndex(NRows(file)), df.index)}
    /\ ColumnsNamed(df, "feature_c")
         = {Reindex(FillNa(Column(file, "feature_c"), -1),
                    file.index, df.index)}

====
